---- MODULE Spec2Model ----
(***************************************************************************)
(* Model of c_src/audio_preprocessor.c: the batch driver (main), the       *)
(* worker pool (worker_thread over ThreadPool) and the per-file            *)
(* normalisation pipeline (process_file).                                  *)
(*                                                                         *)
(* Spec      : main and the worker threads; process_file is a call that    *)
(*             returns zero or non-zero.                                   *)
(* SpecFile  : one call of process_file, statement by statement, against   *)
(*             a codec collaborator whose every call may succeed or fail;  *)
(*             the encoder refuses at most MaxRejects frames.              *)
(* FairSpecFile : the same call for one config, with an encoder that may   *)
(*             refuse any frame, and the calling thread always running.    *)
(* SpecWalk  : collect_files_recursive over a directory tree, with paths   *)
(*             as character sequences.                                     *)
(***************************************************************************)
EXTENDS Integers, Sequences, FiniteSets, TLC

\* ---------------------------------------------------------------- bounds
MaxTasks == 3
MaxThreads == 3

MaxPackets == 2      \* packets av_read_frame delivers before end of input
MaxFrames == 2       \* frames the decoder delivers in one run
MaxDepth == 2        \* levels of directories below the input root
MaxRejects == 2      \* submissions the encoder refuses in one run (SpecFile)
SwrDelay == 2000     \* samples the resampler may keep back until it is flushed

\* ------------------------------------------------------ program constants
DefaultThreads == 4
frame_size == 1024
ResampleBufLen == 8192
PathBufLen == 4096

\* ---------------------------------------------------- inputs of process_file
\* config->target_sample_rate, and the decoder's sample rate
TargetRates == {8000, 16000}
InputRates == {16000}
\* config->min_duration_sec / max_duration_sec, in tenths of a second
Durations == {0, 1, 2}
\* dec_ctx->ch_layout.nb_channels as the decoder reports it
DecChannels == {0, 1, 3}
\* dec_frame->nb_samples of a decoded frame
FrameSizes == {1152, 9000}

TaskIds == 0..(MaxTasks - 1)
ThreadIds == 0..(MaxTasks - 1)

\* values sysconf(_SC_NPROCESSORS_ONLN) may return: an error or a core count
SysconfValues == {-1, 1, MaxThreads}
\* the --threads option: absent, or the integer atoi() returns
ThreadsOption == {[given |-> FALSE, value |-> 0]}
                   \cup {[given |-> TRUE, value |-> v] : v \in -1..MaxThreads}

VARIABLES
    \* ---- main
    main_pc,        \* position of main
    num_threads,    \* int num_threads
    requested,      \* history: num_threads as the option loop left it (the requested W)
    task_count,     \* int task_count (also pool.task_count)
    ensured,        \* loop index of the directory loop: ensure_dir calls completed
    created,        \* loop index of the pthread_create loop
    joined,         \* loop index of the pthread_join loop
    complete_msg,   \* "Processing complete!" has been printed
    \* ---- ThreadPool
    next_task,      \* pool.next_task
    mutex,          \* pool.mutex: -1 when free, else the holding thread
    \* ---- worker_thread, per thread
    wpc,            \* position of each worker
    task_idx,       \* local int task_idx
    wret,           \* local int ret
    calls,          \* calls[i]: number of process_file calls made for task i
    reports,        \* reports[i]: the "Processed:"/"Failed:" lines printed for task i
    \* ---- process_file: inputs
    target_sample_rate, \* config->target_sample_rate
    min_duration,   \* config->min_duration_sec, in tenths of a second
    max_duration,   \* config->max_duration_sec, in tenths of a second
    in_sample_rate, \* dec_ctx->sample_rate
    dec_channels,   \* dec_ctx->ch_layout.nb_channels
    rejects_left,   \* submissions the encoder may still refuse; -1: no limit
    \* ---- process_file: locals
    fpc,            \* position in process_file
    stage,          \* index of the next set-up call
    ret,            \* int ret
    acquired,       \* the pointers that are non-NULL
    freed,          \* freed[r]: number of times resource r has been released
    max_samples,    \* size_t max_samples
    min_samples,    \* size_t min_samples
    total_output_samples,
    pts,            \* int64_t pts
    enc_pts,        \* enc_frame->pts
    nb_samples,     \* dec_frame->nb_samples
    samples_to_write,
    offset,
    silence_remaining,
    buf_first,      \* resample_buf: number of the first resampled sample it holds (0: none)
    out_count,      \* the out_count argument of the last swr_convert call
    converted,      \* int converted / int flushed: what that call returned
    enc_nb,         \* enc_frame->nb_samples
    \* ---- the codec collaborator
    pkts_read,      \* packets av_read_frame has delivered
    frames_decoded, \* frames avcodec_receive_frame has delivered
    swr_pending,    \* samples held inside the resampler
    swr_returned,   \* samples the resampler has returned so far
    \* ---- history
    out_log,        \* header, accepted frames, end-of-stream, trailer, in order
    faults,         \* kinds of codec failure seen in this run
    convert_calls,  \* swr_convert calls made on a decoded frame (line 180)
    flush_calls,    \* flushing swr_convert calls made (line 235)
    batch_k,        \* size of the batch being chunked (samples to write, or silence)
    built,          \* the chunks built for this batch: offset and sample count
    batch_state,    \* "none", "open", "complete" (loop test failed), "aborted" (break)
    \* ---- collect_files_recursive
    walk_pc,        \* "idle", "call" (line 489 reached), "walk", "done"
    input_dir,      \* argv[1]
    output_dir,     \* argv[2]
    stack,          \* the activations of collect_files_recursive, innermost last
    entry,          \* history: the entry readdir returned last
    tasks,          \* *tasks: the ProcessTask array, task_count long
    capacity        \* *capacity

poolvars == <<main_pc, num_threads, requested, task_count, ensured, created, joined, complete_msg,
              next_task, mutex, wpc, task_idx, wret, calls, reports>>

inputvars == <<target_sample_rate, min_duration, max_duration, in_sample_rate,
               dec_channels>>

swrvars == <<out_count, converted, convert_calls, flush_calls>>

batchvars == <<batch_k, built, batch_state>>

filevars == <<inputvars, rejects_left, fpc, stage, ret, acquired, freed, max_samples,
              min_samples, total_output_samples, pts, enc_pts, nb_samples,
              samples_to_write, offset, silence_remaining, buf_first, pkts_read, frames_decoded,
              swr_pending, swr_returned, out_log, faults, swrvars, enc_nb, batchvars>>

walkvars == <<walk_pc, input_dir, output_dir, stack, entry, tasks, capacity>>

vars == <<poolvars, filevars, walkvars>>

Resources == {"in_fmt_ctx", "dec_ctx", "out_fmt_ctx", "out_file", "enc_ctx", "swr_ctx",
              "dec_frame", "enc_frame", "pkt", "out_pkt"}

\* process_file has not been entered
FileIdle ==
    /\ target_sample_rate = 16000
    /\ min_duration = 0
    /\ max_duration = 0
    /\ in_sample_rate = 16000
    /\ dec_channels = 1
    /\ rejects_left = 0
    /\ fpc = "idle"
    /\ stage = 1
    /\ ret = 0
    /\ acquired = {}
    /\ freed = [r \in Resources |-> 0]
    /\ max_samples = 0
    /\ min_samples = 0
    /\ total_output_samples = 0
    /\ pts = 0
    /\ enc_pts = 0
    /\ nb_samples = 0
    /\ samples_to_write = 0
    /\ offset = 0
    /\ silence_remaining = 0
    /\ buf_first = 0
    /\ pkts_read = 0
    /\ frames_decoded = 0
    /\ swr_pending = 0
    /\ swr_returned = 0
    /\ out_log = <<>>
    /\ faults = {}
    /\ out_count = 0
    /\ converted = 0
    /\ enc_nb = 0
    /\ convert_calls = 0
    /\ flush_calls = 0
    /\ batch_k = 0
    /\ built = {}
    /\ batch_state = "none"

\* ------------------------------------------------------------------ main
\* main has not run yet
PoolInit ==
    /\ main_pc = "sysconf"
    /\ num_threads = 0
    /\ requested = 0
    /\ task_count = 0
    /\ ensured = 0
    /\ created = 0
    /\ joined = 0
    /\ complete_msg = FALSE
    /\ next_task = 0
    /\ mutex = -1
    /\ wpc = [t \in ThreadIds |-> "unborn"]
    /\ task_idx = [t \in ThreadIds |-> 0]
    /\ wret = [t \in ThreadIds |-> 0]
    /\ calls = [i \in TaskIds |-> 0]
    /\ reports = [i \in TaskIds |-> <<>>]

\* collect_files_recursive has not been called
WalkIdle ==
    /\ walk_pc = "idle"
    /\ input_dir = <<>>
    /\ output_dir = <<>>
    /\ stack = <<>>
    /\ entry = [comps |-> <<>>, kind |-> "none"]
    /\ tasks = <<>>
    /\ capacity = 0

Init == PoolInit /\ FileIdle /\ WalkIdle

\* int num_threads = (int)sysconf(...); if (num_threads < 1) num_threads = 4;
SysconfThreads(n) == IF n < 1 THEN DefaultThreads ELSE n

MainSysconf ==
    /\ main_pc = "sysconf"
    /\ \E n \in SysconfValues : num_threads' = SysconfThreads(n)
    /\ main_pc' = "args"
    /\ UNCHANGED <<filevars, walkvars>>
    /\ UNCHANGED <<ensured, requested, task_count, created, joined, complete_msg, next_task, mutex,
                   wpc, task_idx, wret, calls, reports>>

\* the option loop: --threads <num> overwrites num_threads with atoi(num)
ParseThreads(cur, opt) == IF opt.given THEN opt.value ELSE cur

MainParseArgs ==
    /\ main_pc = "args"
    /\ \E opt \in ThreadsOption : num_threads' = ParseThreads(num_threads, opt)
    /\ requested' = num_threads'
    /\ main_pc' = "collect"
    /\ UNCHANGED <<filevars, walkvars>>
    /\ UNCHANGED <<ensured, task_count, created, joined, complete_msg, next_task, mutex,
                   wpc, task_idx, wret, calls, reports>>

\* mutant: the directory loop is left out
AfterCollect_NoDirs(n) == IF n = 0 THEN "exit_nofiles" ELSE "clamp"

\* if (task_count == 0) { ...; return 0; }  else on to the directory loop
AfterCollect(n) == IF n = 0 THEN "exit_nofiles" ELSE "mkdirs"

\* collect_files_recursive fills the task list (SpecWalk has the walk itself);
\* main returns 0 when the list is empty
MainCollect ==
    /\ main_pc = "collect"
    /\ \E n \in 0..MaxTasks :
          /\ task_count' = n
          /\ main_pc' = AfterCollect(n)
    /\ UNCHANGED <<filevars, walkvars>>
    /\ UNCHANGED <<ensured, num_threads, requested, created, joined, complete_msg, next_task, mutex,
                   wpc, task_idx, wret, calls, reports>>

\* for (i = 0; i < task_count; i++): the parent of tasks[i].output_path is cut
\* off at the last '/' and handed to ensure_dir, which returns when it has
\* called mkdir on every prefix of it. Every output_path holds a '/': the
\* formats of lines 405-414 put one after output_dir.
MainEnsureDirs ==
    /\ main_pc = "mkdirs"
    /\ IF ensured < task_count
          THEN /\ ensured' = ensured + 1
               /\ main_pc' = main_pc
          ELSE /\ main_pc' = "clamp"
               /\ UNCHANGED ensured
    /\ UNCHANGED <<filevars, walkvars>>
    /\ UNCHANGED <<num_threads, requested, task_count, created, joined, complete_msg,
                   next_task, mutex, wpc, task_idx, wret, calls, reports>>

\* if (num_threads > task_count) num_threads = task_count;
ClampThreads(w, n) == IF w > n THEN n ELSE w

\* the clamp, then ThreadPool pool = {..., .next_task = 0}; pthread_mutex_init
MainClamp ==
    /\ main_pc = "clamp"
    /\ num_threads' = ClampThreads(num_threads, task_count)
    /\ next_task' = 0
    /\ mutex' = -1
    /\ main_pc' = "create"
    /\ UNCHANGED <<filevars, walkvars>>
    /\ UNCHANGED <<ensured, requested, task_count, created, joined, complete_msg,
                   wpc, task_idx, wret, calls, reports>>

\* for (i = 0; i < num_threads; i++) pthread_create(&threads[i], ..., worker_thread, &pool)
MainCreate ==
    /\ main_pc = "create"
    /\ IF created < num_threads
          THEN /\ wpc' = [wpc EXCEPT ![created] = "lock"]
               /\ created' = created + 1
               /\ main_pc' = main_pc
          ELSE /\ main_pc' = "join"
               /\ UNCHANGED <<wpc, created>>
    /\ UNCHANGED <<filevars, walkvars>>
    /\ UNCHANGED <<ensured, num_threads, requested, task_count, joined, complete_msg, next_task, mutex,
                   task_idx, wret, calls, reports>>

\* pthread_join returns once the joined thread has returned from worker_thread
JoinReady(t) == wpc[t] = "done"

\* for (i = 0; i < num_threads; i++) pthread_join(threads[i], NULL)
MainJoin ==
    /\ main_pc = "join"
    /\ IF joined < num_threads
          THEN /\ JoinReady(joined)
               /\ joined' = joined + 1
               /\ main_pc' = main_pc
          ELSE /\ main_pc' = "complete"
               /\ UNCHANGED joined
    /\ UNCHANGED <<filevars, walkvars>>
    /\ UNCHANGED <<ensured, num_threads, requested, task_count, created, complete_msg, next_task, mutex,
                   wpc, task_idx, wret, calls, reports>>

\* printf("Processing complete!\n"); cleanup; return 0
MainComplete ==
    /\ main_pc = "complete"
    /\ complete_msg' = TRUE
    /\ main_pc' = "exit"
    /\ UNCHANGED <<filevars, walkvars>>
    /\ UNCHANGED <<ensured, num_threads, requested, task_count, created, joined, next_task, mutex,
                   wpc, task_idx, wret, calls, reports>>

\* --------------------------------------------------------- worker_thread
\* mutant: the lock is taken without waiting for the holder
MutexFree_NoWait(m) == TRUE

\* pthread_mutex_lock blocks until the mutex is free
MutexFree(m) == m = -1

WorkerLock(t) ==
    /\ wpc[t] = "lock"
    /\ MutexFree(mutex)
    /\ mutex' = t
    /\ wpc' = [wpc EXCEPT ![t] = "read"]
    /\ UNCHANGED <<filevars, walkvars>>
    /\ UNCHANGED <<ensured, main_pc, num_threads, requested, task_count, created, joined, complete_msg,
                   next_task, task_idx, wret, calls, reports>>

\* int task_idx = pool->next_task++  (the read of the cursor)
WorkerRead(t) ==
    /\ wpc[t] = "read"
    /\ task_idx' = [task_idx EXCEPT ![t] = next_task]
    /\ wpc' = [wpc EXCEPT ![t] = "incr"]
    /\ UNCHANGED <<filevars, walkvars>>
    /\ UNCHANGED <<ensured, main_pc, num_threads, requested, task_count, created, joined, complete_msg,
                   next_task, mutex, wret, calls, reports>>

\* int task_idx = pool->next_task++  (the write-back of the cursor)
WorkerIncr(t) ==
    /\ wpc[t] = "incr"
    /\ next_task' = task_idx[t] + 1
    /\ wpc' = [wpc EXCEPT ![t] = "unlock"]
    /\ UNCHANGED <<filevars, walkvars>>
    /\ UNCHANGED <<ensured, main_pc, num_threads, requested, task_count, created, joined, complete_msg,
                   mutex, task_idx, wret, calls, reports>>

\* mutant: the mutex is kept while the file is processed
Unlocked_Keep(m, t) == m

\* pthread_mutex_unlock(&pool->mutex) by thread t
Unlocked(m, t) == IF m = t THEN -1 ELSE m

WorkerUnlock(t) ==
    /\ wpc[t] = "unlock"
    /\ mutex' = Unlocked(mutex, t)
    /\ wpc' = [wpc EXCEPT ![t] = "check"]
    /\ UNCHANGED <<filevars, walkvars>>
    /\ UNCHANGED <<ensured, main_pc, num_threads, requested, task_count, created, joined, complete_msg,
                   next_task, task_idx, wret, calls, reports>>

\* if (task_idx >= pool->task_count) break;
NoTaskLeft(idx, n) == idx >= n

\* the break, or the call process_file(task->input_path, ...)
WorkerCheck(t) ==
    /\ wpc[t] = "check"
    /\ IF NoTaskLeft(task_idx[t], task_count)
          THEN /\ wpc' = [wpc EXCEPT ![t] = "done"]
               /\ UNCHANGED calls
          ELSE /\ wpc' = [wpc EXCEPT ![t] = "process"]
               /\ calls' = [calls EXCEPT ![task_idx[t]] = @ + 1]
    /\ UNCHANGED <<filevars, walkvars>>
    /\ UNCHANGED <<ensured, main_pc, num_threads, requested, task_count, created, joined, complete_msg,
                   next_task, mutex, task_idx, wret, reports>>

\* int ret = process_file(...): the call returns 0 or an error code
WorkerReturn(t) ==
    /\ wpc[t] = "process"
    /\ \E r \in {0, -1} : wret' = [wret EXCEPT ![t] = r]
    /\ wpc' = [wpc EXCEPT ![t] = "report"]
    /\ UNCHANGED <<filevars, walkvars>>
    /\ UNCHANGED <<ensured, main_pc, num_threads, requested, task_count, created, joined, complete_msg,
                   next_task, mutex, task_idx, calls, reports>>

\* mutant: a failed task ends the worker
AfterReport_StopOnFailure(r) == IF r = 0 THEN "lock" ELSE "done"

\* where the worker goes after the report: back to the top of while (1)
AfterReport(r) == "lock"

\* if (ret == 0) printf("Processed: ...") else fprintf(stderr, "Failed: ...")
WorkerReport(t) ==
    /\ wpc[t] = "report"
    /\ reports' = [reports EXCEPT ![task_idx[t]] =
                      Append(@, IF wret[t] = 0 THEN "Processed" ELSE "Failed")]
    /\ wpc' = [wpc EXCEPT ![t] = AfterReport(wret[t])]
    /\ UNCHANGED <<filevars, walkvars>>
    /\ UNCHANGED <<ensured, main_pc, num_threads, requested, task_count, created, joined, complete_msg,
                   next_task, mutex, task_idx, wret, calls>>

Worker(t) ==
    \/ WorkerLock(t)
    \/ WorkerRead(t)
    \/ WorkerIncr(t)
    \/ WorkerUnlock(t)
    \/ WorkerCheck(t)
    \/ WorkerReturn(t)
    \/ WorkerReport(t)

Next ==
    \/ MainSysconf
    \/ MainParseArgs
    \/ MainCollect
    \/ MainEnsureDirs
    \/ MainClamp
    \/ MainCreate
    \/ MainJoin
    \/ MainComplete
    \/ \E t \in ThreadIds : Worker(t)

Spec == Init /\ [][Next]_vars

\* ----------------------------------------------------------- process_file
Min(a, b) == IF a < b THEN a ELSE b
Max(a, b) == IF a > b THEN a ELSE b

\* The calls of lines 60-139 in order, each with the resource it leaves in a
\* pointer of process_file when it succeeds.
SetupStages == <<
    [call |-> "avformat_open_input",              res |-> {"in_fmt_ctx"}],
    [call |-> "avformat_find_stream_info",        res |-> {}],
    [call |-> "av_find_best_stream",              res |-> {}],
    [call |-> "avcodec_find_decoder",             res |-> {}],
    [call |-> "avcodec_alloc_context3(decoder)",  res |-> {"dec_ctx"}],
    [call |-> "avcodec_parameters_to_context",    res |-> {}],
    [call |-> "avcodec_open2(dec_ctx)",           res |-> {}],
    [call |-> "avformat_alloc_output_context2",   res |-> {"out_fmt_ctx"}],
    [call |-> "avcodec_find_encoder",             res |-> {}],
    [call |-> "avformat_new_stream",              res |-> {}],
    [call |-> "avcodec_alloc_context3(encoder)",  res |-> {"enc_ctx"}],
    [call |-> "avcodec_open2(enc_ctx)",           res |-> {}],
    [call |-> "avcodec_parameters_from_context",  res |-> {}],
    [call |-> "avio_open",                        res |-> {"out_file"}],
    [call |-> "avformat_write_header",            res |-> {}],
    [call |-> "swr_alloc_set_opts2",              res |-> {"swr_ctx"}],
    [call |-> "swr_init",                         res |-> {}] >>

FrameResources == {"dec_frame", "enc_frame", "pkt", "out_pkt"}

\* if (channels == 0) channels = 2;
Channels == IF dec_channels = 0 THEN 2 ELSE dec_channels

\* (size_t)(config->..._duration_sec * config->target_sample_rate): the cast
\* truncates; d is the duration in tenths of a second
DurationToSamples(d, rate) == (d * rate) \div 10

\* mutant: the channel count is left out of the clamp
MaxOut_NoChannels == ResampleBufLen

\* int max_out = sizeof(resample_buf) / sizeof(float) / channels;
MaxOut == ResampleBufLen \div Channels

\* av_rescale_rnd(a, b, c, AV_ROUND_UP)
RescaleUp(a, b, c) == (a * b + c - 1) \div c

\* out_samples_est, after  if (out_samples_est > max_out) out_samples_est = max_out;
OutSamplesEst(nb) ==
    Min(RescaleUp(nb, target_sample_rate, in_sample_rate), MaxOut)

\* samples_to_write: converted, cut to  max_samples - total_output_samples
SamplesToWrite(got) ==
    Min(got, max_samples - total_output_samples)

\* mutant: every chunk is a full frame
Chunk_NoCut(left) == frame_size

\* size_t chunk = frame_size; if (chunk > left) chunk = left;
Chunk(left) == Min(frame_size, left)

\* history: a frame of n samples built for the samples from position off of
\* the batch
BuiltChunk(off, n) == [off |-> off, n |-> n]

\* the largest sample count a run can reach with the inputs above
MaxTotal == DurationToSamples(2, 16000)

\* pts values above PtsCap are not told apart; no run in which the encoder
\* refuses at most MaxRejects submissions reaches it
PtsCap == MaxTotal + (MaxRejects + 1) * frame_size

\* pts += chunk
AdvancePts(p, chunk) == Min(p + chunk, PtsCap)

LogEvent(ev) == Append(out_log, [ev |-> ev, first |-> 0, n |-> 0, pts |-> 0])

\* a frame the encoder accepted: the number of its first resampled sample
\* (0 for a frame of silence), its sample count and its pts
LogFrame(first, n, p) ==
    Append(out_log, [ev |-> "frame", first |-> first, n |-> n, pts |-> p])

\* the encoder may refuse a submission
MayReject == rejects_left # 0
Rejected == IF rejects_left > 0 THEN rejects_left - 1 ELSE rejects_left

\* one set-up call of lines 60-139: it succeeds, or it fails and the code jumps
\* to cleanup with ret < 0
Setup ==
    /\ fpc = "setup"
    /\ \E ok \in BOOLEAN :
          IF ok
             THEN /\ acquired' = acquired \cup SetupStages[stage].res
                  /\ ret' = 0
                  /\ out_log' = IF SetupStages[stage].call = "avformat_write_header"
                                   THEN LogEvent("header") ELSE out_log
                  /\ IF stage = Len(SetupStages)
                        THEN fpc' = "alloc" /\ stage' = stage
                        ELSE fpc' = fpc /\ stage' = stage + 1
             ELSE /\ ret' = -1
                  /\ fpc' = "cleanup"
                  /\ UNCHANGED <<acquired, out_log, stage>>
    /\ UNCHANGED <<poolvars, walkvars>>
    /\ UNCHANGED <<swrvars, enc_nb, batchvars>>
    /\ UNCHANGED <<inputvars, rejects_left, freed, max_samples, min_samples,
                   total_output_samples, pts, enc_pts, nb_samples, samples_to_write,
                   offset, silence_remaining, buf_first, pkts_read, frames_decoded,
                   swr_pending, swr_returned, faults>>

\* lines 142-151: the four allocations, the test for a NULL among them, then
\* max_samples, min_samples, total_output_samples = 0, pts = 0
AllocFrames ==
    /\ fpc = "alloc"
    /\ \E got \in SUBSET FrameResources :
          /\ acquired' = acquired \cup got
          /\ IF got = FrameResources
                THEN /\ max_samples' = DurationToSamples(max_duration, target_sample_rate)
                     /\ min_samples' = DurationToSamples(min_duration, target_sample_rate)
                     /\ total_output_samples' = 0
                     /\ pts' = 0
                     /\ fpc' = "read"
                     /\ UNCHANGED <<ret, faults>>
                ELSE /\ ret' = -1
                     /\ faults' = faults \cup {"alloc"}
                     /\ fpc' = "cleanup"
                     /\ UNCHANGED <<max_samples, min_samples, total_output_samples, pts>>
    /\ UNCHANGED <<poolvars, walkvars>>
    /\ UNCHANGED <<swrvars, enc_nb, batchvars>>
    /\ UNCHANGED <<inputvars, enc_pts, rejects_left, stage, freed, nb_samples, samples_to_write,
                   offset, silence_remaining, buf_first, pkts_read, frames_decoded,
                   swr_pending, swr_returned, out_log>>

\* line 228, reached when the inner while ends:
\* if (total_output_samples >= max_samples) break;
AfterReceiveLoop(total) == IF total >= max_samples THEN "flush" ELSE "read"

\* lines 157-165: av_read_frame ends the loop, or delivers a packet of another
\* stream, or a packet that avcodec_send_packet refuses or takes
ReadPacket ==
    /\ fpc = "read"
    /\ \/ /\ fpc' = "flush"
          /\ UNCHANGED <<pkts_read, ret, faults>>
       \/ /\ pkts_read < MaxPackets
          /\ pkts_read' = pkts_read + 1
          /\ \/ fpc' = fpc /\ UNCHANGED <<ret, faults>>
             \/ fpc' = fpc /\ ret' = -1 /\ faults' = faults \cup {"send_packet"}
             \/ fpc' = "recv" /\ ret' = 0 /\ UNCHANGED faults
    /\ UNCHANGED <<poolvars, walkvars>>
    /\ UNCHANGED <<swrvars, enc_nb, batchvars>>
    /\ UNCHANGED <<inputvars, enc_pts, rejects_left, stage, acquired, freed, max_samples,
                   min_samples, total_output_samples, pts, nb_samples, samples_to_write,
                   offset, silence_remaining, buf_first, frames_decoded,
                   swr_pending, swr_returned, out_log>>

\* lines 167-171: avcodec_receive_frame has no frame, or delivers one; a frame
\* that arrives when the count has reached max_samples is dropped
ReceiveFrame ==
    /\ fpc = "recv"
    /\ \/ /\ fpc' = AfterReceiveLoop(total_output_samples)
          /\ UNCHANGED <<frames_decoded, nb_samples>>
       \/ /\ frames_decoded < MaxFrames
          /\ frames_decoded' = frames_decoded + 1
          /\ \E nb \in FrameSizes :
                IF total_output_samples >= max_samples
                   THEN /\ fpc' = AfterReceiveLoop(total_output_samples)
                        /\ UNCHANGED nb_samples
                   ELSE /\ nb_samples' = nb
                        /\ fpc' = "convert"
    /\ UNCHANGED <<poolvars, walkvars>>
    /\ UNCHANGED <<swrvars, enc_nb, batchvars>>
    /\ UNCHANGED <<inputvars, enc_pts, rejects_left, stage, ret, acquired, freed, max_samples,
                   min_samples, total_output_samples, pts, samples_to_write,
                   offset, silence_remaining, buf_first, pkts_read,
                   swr_pending, swr_returned, out_log, faults>>

\* what the resampler holds once it has taken nb input samples
SwrTake(nb) == swr_pending + (nb * target_sample_rate) \div in_sample_rate

\* the counts swr_convert may return for a request of at most cap samples when
\* it holds `held`: all it can give, or all but its filter delay, or an error
SwrResults(held, cap) == {Min(cap, held), Min(cap, Max(0, held - SwrDelay)), -1}

\* lines 173-190: the call of swr_convert on the decoded frame
Convert ==
    /\ fpc = "convert"
    /\ out_count' = OutSamplesEst(nb_samples)
    /\ convert_calls' = convert_calls + 1
    /\ \E got \in SwrResults(SwrTake(nb_samples), OutSamplesEst(nb_samples)) :
          /\ converted' = got
          /\ IF got <= 0
                THEN /\ swr_pending' = IF got < 0 THEN swr_pending
                                                  ELSE SwrTake(nb_samples)
                     /\ faults' = IF got < 0 THEN faults \cup {"swr_convert"} ELSE faults
                     /\ fpc' = "recv"
                     /\ UNCHANGED <<swr_returned, buf_first, samples_to_write, offset,
                                    batchvars>>
                ELSE /\ swr_pending' = SwrTake(nb_samples) - got
                     /\ swr_returned' = swr_returned + got
                     /\ buf_first' = swr_returned + 1
                     /\ samples_to_write' = SamplesToWrite(got)
                     /\ offset' = 0
                     /\ batch_k' = SamplesToWrite(got)
                     /\ built' = {}
                     /\ batch_state' = "open"
                     /\ fpc' = "chunk_d"
                     /\ UNCHANGED faults
    /\ UNCHANGED <<poolvars, walkvars>>
    /\ UNCHANGED <<flush_calls, enc_nb>>
    /\ UNCHANGED <<inputvars, enc_pts, rejects_left, stage, ret, acquired, freed, max_samples,
                   min_samples, total_output_samples, pts, nb_samples,
                   silence_remaining, pkts_read, frames_decoded, out_log>>

\* lines 224-228, after the chunk loop of the decode loop:
\* total_output_samples += samples_to_write; the two breaks when it reached
\* max_samples, else the next avcodec_receive_frame
AfterDecodeBatch(total) == IF total >= max_samples THEN "flush" ELSE "recv"

\* lines 191-209: the test of the chunk loop, then one frame is built:
\* av_frame_get_buffer, the copy out of resample_buf, enc_frame->pts = pts; pts += chunk
BuildChunkDecode ==
    /\ fpc = "chunk_d"
    /\ IF offset < samples_to_write
          THEN \/ /\ ret' = -1
                  /\ enc_nb' = Chunk(samples_to_write - offset)
                  /\ faults' = faults \cup {"alloc"}
                  /\ total_output_samples' = total_output_samples + samples_to_write
                  /\ batch_state' = "aborted"
                  /\ fpc' = AfterDecodeBatch(total_output_samples')
                  /\ UNCHANGED <<pts, enc_pts, built>>
               \/ /\ ret' = 0
                  /\ enc_nb' = Chunk(samples_to_write - offset)
                  /\ built' = built \cup {BuiltChunk(offset, Chunk(samples_to_write - offset))}
                  /\ enc_pts' = pts
                  /\ pts' = AdvancePts(pts, Chunk(samples_to_write - offset))
                  /\ fpc' = "send_d"
                  /\ UNCHANGED <<faults, total_output_samples, batch_state>>
          ELSE /\ total_output_samples' = total_output_samples + samples_to_write
               /\ batch_state' = "complete"
               /\ fpc' = AfterDecodeBatch(total_output_samples')
               /\ UNCHANGED <<ret, faults, pts, enc_pts, enc_nb, built>>
    /\ UNCHANGED <<poolvars, walkvars>>
    /\ UNCHANGED <<swrvars, batch_k>>
    /\ UNCHANGED <<inputvars, rejects_left, stage, acquired, freed, max_samples,
                   min_samples, nb_samples, samples_to_write, offset,
                   silence_remaining, buf_first, pkts_read, frames_decoded,
                   swr_pending, swr_returned, out_log>>

\* where the decode loop's chunk loop goes when avcodec_send_frame fails:
\* if (ret < 0) continue;  -- offset is not advanced
RejectedOffsetDecode(off, chunk) == off

\* lines 211-221: avcodec_send_frame; on failure continue, else the packets
\* are written and offset += chunk
SendChunkDecode ==
    /\ fpc = "send_d"
    /\ \/ /\ ret' = 0
          /\ out_log' = LogFrame(buf_first + offset, Chunk(samples_to_write - offset), enc_pts)
          /\ offset' = offset + Chunk(samples_to_write - offset)
          /\ UNCHANGED <<rejects_left, faults>>
       \/ /\ MayReject
          /\ ret' = -1
          /\ rejects_left' = Rejected
          /\ faults' = faults \cup {"send_frame"}
          /\ offset' = RejectedOffsetDecode(offset, Chunk(samples_to_write - offset))
          /\ UNCHANGED out_log
    /\ fpc' = "chunk_d"
    /\ UNCHANGED <<poolvars, walkvars>>
    /\ UNCHANGED <<swrvars, enc_nb, batchvars>>
    /\ UNCHANGED <<inputvars, stage, acquired, freed, max_samples, min_samples,
                   total_output_samples, pts, enc_pts, nb_samples, samples_to_write,
                   silence_remaining, buf_first, pkts_read, frames_decoded,
                   swr_pending, swr_returned>>

\* the counts swr_convert(swr_ctx, &out_ptr, max_out, NULL, 0) may return when
\* the resampler holds `held`: what is left, up to cap, or an error
SwrFlushResults(held, cap) == {Min(cap, held), -1}

\* mutant: after the flush loop the input loop is entered again
AfterFlushLoop_ReadOn == "read"

\* where the code goes when the flush loop ends: on to line 278
AfterFlushLoop == "pad"

\* lines 232-242: the test of the flush loop and the flushing swr_convert
FlushResampler ==
    /\ fpc = "flush"
    /\ IF total_output_samples < max_samples
          THEN /\ out_count' = MaxOut
               /\ flush_calls' = flush_calls + 1
               /\ \E flushed \in SwrFlushResults(swr_pending, MaxOut) :
                     /\ converted' = flushed
                     /\ IF flushed <= 0
                           THEN /\ fpc' = AfterFlushLoop
                                /\ faults' = IF flushed < 0 THEN faults \cup {"swr_flush"}
                                                            ELSE faults
                                /\ UNCHANGED <<swr_pending, swr_returned, buf_first,
                                               samples_to_write, offset, batchvars>>
                           ELSE /\ swr_pending' = swr_pending - flushed
                                /\ swr_returned' = swr_returned + flushed
                                /\ buf_first' = swr_returned + 1
                                /\ samples_to_write' = SamplesToWrite(flushed)
                                /\ offset' = 0
                                /\ batch_k' = SamplesToWrite(flushed)
                                /\ built' = {}
                                /\ batch_state' = "open"
                                /\ fpc' = "chunk_f"
                                /\ UNCHANGED faults
          ELSE /\ fpc' = AfterFlushLoop
               /\ UNCHANGED <<swr_pending, swr_returned, buf_first, samples_to_write,
                              offset, faults, out_count, flush_calls, converted,
                              batchvars>>
    /\ UNCHANGED <<poolvars, walkvars>>
    /\ UNCHANGED <<convert_calls, enc_nb>>
    /\ UNCHANGED <<inputvars, rejects_left, stage, ret, acquired, freed, max_samples,
                   min_samples, total_output_samples, pts, enc_pts, nb_samples,
                   silence_remaining, pkts_read, frames_decoded, out_log>>

\* lines 243-261 and 274: the test of the flush loop's chunk loop, then one
\* frame is built; after the loop total_output_samples += samples_to_write
BuildChunkFlush ==
    /\ fpc = "chunk_f"
    /\ IF offset < samples_to_write
          THEN \/ /\ ret' = -1
                  /\ enc_nb' = Chunk(samples_to_write - offset)
                  /\ faults' = faults \cup {"alloc"}
                  /\ total_output_samples' = total_output_samples + samples_to_write
                  /\ batch_state' = "aborted"
                  /\ fpc' = "flush"
                  /\ UNCHANGED <<pts, enc_pts, built>>
               \/ /\ ret' = 0
                  /\ enc_nb' = Chunk(samples_to_write - offset)
                  /\ built' = built \cup {BuiltChunk(offset, Chunk(samples_to_write - offset))}
                  /\ enc_pts' = pts
                  /\ pts' = AdvancePts(pts, Chunk(samples_to_write - offset))
                  /\ fpc' = "send_f"
                  /\ UNCHANGED <<faults, total_output_samples, batch_state>>
          ELSE /\ total_output_samples' = total_output_samples + samples_to_write
               /\ batch_state' = "complete"
               /\ fpc' = "flush"
               /\ UNCHANGED <<ret, faults, pts, enc_pts, enc_nb, built>>
    /\ UNCHANGED <<poolvars, walkvars>>
    /\ UNCHANGED <<swrvars, batch_k>>
    /\ UNCHANGED <<inputvars, rejects_left, stage, acquired, freed, max_samples,
                   min_samples, nb_samples, samples_to_write, offset,
                   silence_remaining, buf_first, pkts_read, frames_decoded,
                   swr_pending, swr_returned, out_log>>

\* lines 263-271: avcodec_send_frame, its result not looked at; the packets
\* are written and offset += chunk
SendChunkFlush ==
    /\ fpc = "send_f"
    /\ \/ /\ out_log' = LogFrame(buf_first + offset, Chunk(samples_to_write - offset), enc_pts)
          /\ UNCHANGED <<rejects_left, faults>>
       \/ /\ MayReject
          /\ rejects_left' = Rejected
          /\ faults' = faults \cup {"send_frame"}
          /\ UNCHANGED out_log
    /\ offset' = offset + Chunk(samples_to_write - offset)
    /\ fpc' = "chunk_f"
    /\ UNCHANGED <<poolvars, walkvars>>
    /\ UNCHANGED <<swrvars, enc_nb, batchvars>>
    /\ UNCHANGED <<inputvars, stage, ret, acquired, freed, max_samples, min_samples,
                   total_output_samples, pts, enc_pts, nb_samples, samples_to_write,
                   silence_remaining, buf_first, pkts_read, frames_decoded,
                   swr_pending, swr_returned>>

\* a padding that would stop at the cap
PadTarget_Capped == Min(min_samples, max_samples)

\* the length the output is padded to: min_samples, whatever max_samples is
PadTarget == min_samples

\* lines 278-280: if (total_output_samples < min_samples): the buffer is
\* zeroed and silence_remaining = min_samples - total_output_samples
StartPadding ==
    /\ fpc = "pad"
    /\ IF total_output_samples < PadTarget
          THEN /\ buf_first' = 0
               /\ silence_remaining' = PadTarget - total_output_samples
               /\ batch_k' = PadTarget - total_output_samples
               /\ built' = {}
               /\ batch_state' = "open"
               /\ fpc' = "chunk_s"
          ELSE /\ fpc' = "enc_flush"
               /\ UNCHANGED <<buf_first, silence_remaining, batchvars>>
    /\ UNCHANGED <<poolvars, walkvars>>
    /\ UNCHANGED <<swrvars, enc_nb>>
    /\ UNCHANGED <<inputvars, rejects_left, stage, ret, acquired, freed, max_samples,
                   min_samples, total_output_samples, pts, enc_pts, nb_samples,
                   samples_to_write, offset, pkts_read, frames_decoded,
                   swr_pending, swr_returned, out_log, faults>>

\* lines 282-298: the test of the silence loop, then one frame of zeros is built
BuildChunkSilence ==
    /\ fpc = "chunk_s"
    /\ IF silence_remaining > 0
          THEN \/ /\ ret' = -1
                  /\ enc_nb' = Chunk(silence_remaining)
                  /\ faults' = faults \cup {"alloc"}
                  /\ batch_state' = "aborted"
                  /\ fpc' = "enc_flush"
                  /\ UNCHANGED <<pts, enc_pts, built>>
               \/ /\ ret' = 0
                  /\ enc_nb' = Chunk(silence_remaining)
                  /\ built' = built \cup {BuiltChunk(batch_k - silence_remaining,
                                                      Chunk(silence_remaining))}
                  /\ enc_pts' = pts
                  /\ pts' = AdvancePts(pts, Chunk(silence_remaining))
                  /\ fpc' = "send_s"
                  /\ UNCHANGED <<faults, batch_state>>
          ELSE /\ batch_state' = "complete"
               /\ fpc' = "enc_flush"
               /\ UNCHANGED <<ret, faults, pts, enc_pts, enc_nb, built>>
    /\ UNCHANGED <<poolvars, walkvars>>
    /\ UNCHANGED <<swrvars, batch_k>>
    /\ UNCHANGED <<inputvars, rejects_left, stage, acquired, freed, max_samples,
                   min_samples, total_output_samples, nb_samples, samples_to_write,
                   offset, silence_remaining, buf_first, pkts_read, frames_decoded,
                   swr_pending, swr_returned, out_log>>

\* lines 300-308: avcodec_send_frame, its result not looked at; the packets
\* are written and silence_remaining -= chunk
SendChunkSilence ==
    /\ fpc = "send_s"
    /\ \/ /\ out_log' = LogFrame(0, Chunk(silence_remaining), enc_pts)
          /\ UNCHANGED <<rejects_left, faults>>
       \/ /\ MayReject
          /\ rejects_left' = Rejected
          /\ faults' = faults \cup {"send_frame"}
          /\ UNCHANGED out_log
    /\ silence_remaining' = silence_remaining - Chunk(silence_remaining)
    /\ fpc' = "chunk_s"
    /\ UNCHANGED <<poolvars, walkvars>>
    /\ UNCHANGED <<swrvars, enc_nb, batchvars>>
    /\ UNCHANGED <<inputvars, stage, ret, acquired, freed, max_samples, min_samples,
                   total_output_samples, pts, enc_pts, nb_samples, samples_to_write,
                   offset, buf_first, pkts_read, frames_decoded,
                   swr_pending, swr_returned>>

\* lines 313-319: avcodec_send_frame(enc_ctx, NULL) and the last packets
FlushEncoder ==
    /\ fpc = "enc_flush"
    /\ out_log' = LogEvent("eos")
    /\ fpc' = "trailer"
    /\ UNCHANGED <<poolvars, walkvars>>
    /\ UNCHANGED <<swrvars, enc_nb, batchvars>>
    /\ UNCHANGED <<inputvars, rejects_left, stage, ret, acquired, freed, max_samples,
                   min_samples, total_output_samples, pts, enc_pts, nb_samples,
                   samples_to_write, offset, silence_remaining, buf_first, pkts_read,
                   frames_decoded, swr_pending, swr_returned, faults>>

\* the value of ret when the end of the pipeline is reached (line 322: ret = 0)
FinalRet(r) == 0

\* lines 321-322: av_write_trailer(out_fmt_ctx); ret = 0;
WriteTrailer ==
    /\ fpc = "trailer"
    /\ out_log' = LogEvent("trailer")
    /\ ret' = FinalRet(ret)
    /\ fpc' = "cleanup"
    /\ UNCHANGED <<poolvars, walkvars>>
    /\ UNCHANGED <<swrvars, enc_nb, batchvars>>
    /\ UNCHANGED <<inputvars, rejects_left, stage, acquired, freed, max_samples,
                   min_samples, total_output_samples, pts, enc_pts, nb_samples,
                   samples_to_write, offset, silence_remaining, buf_first, pkts_read,
                   frames_decoded, swr_pending, swr_returned, faults>>

\* mutant: the output file is left open
CleanupReleases_NoClose(held) == held \ {"out_file"}

\* lines 325-337: the resources the cleanup block releases, given the set of
\* pointers that are non-NULL. The *_free functions do nothing on NULL;
\* enc_ctx, dec_ctx and in_fmt_ctx are tested; the output file is closed
\* inside  if (out_fmt_ctx)
CleanupReleases(held) ==
    (held \cap {"out_pkt", "pkt", "enc_frame", "dec_frame", "swr_ctx"})
    \cup (IF "enc_ctx" \in held THEN {"enc_ctx"} ELSE {})
    \cup (IF "dec_ctx" \in held THEN {"dec_ctx"} ELSE {})
    \cup (IF "out_fmt_ctx" \in held
             THEN {"out_fmt_ctx"} \cup (held \cap {"out_file"})
             ELSE {})
    \cup (IF "in_fmt_ctx" \in held THEN {"in_fmt_ctx"} ELSE {})

\* lines 324-339: cleanup: ... return ret;
Cleanup ==
    /\ fpc = "cleanup"
    /\ freed' = [r \in Resources |->
                    IF r \in CleanupReleases(acquired) THEN freed[r] + 1 ELSE freed[r]]
    /\ fpc' = "returned"
    /\ UNCHANGED <<poolvars, walkvars>>
    /\ UNCHANGED <<swrvars, enc_nb, batchvars>>
    /\ UNCHANGED <<inputvars, rejects_left, stage, ret, acquired, max_samples,
                   min_samples, total_output_samples, pts, enc_pts, nb_samples,
                   samples_to_write, offset, silence_remaining, buf_first, pkts_read,
                   frames_decoded, swr_pending, swr_returned, out_log, faults>>

NextFile ==
    \/ Setup
    \/ AllocFrames
    \/ ReadPacket
    \/ ReceiveFrame
    \/ Convert
    \/ BuildChunkDecode
    \/ SendChunkDecode
    \/ FlushResampler
    \/ BuildChunkFlush
    \/ SendChunkFlush
    \/ StartPadding
    \/ BuildChunkSilence
    \/ SendChunkSilence
    \/ FlushEncoder
    \/ WriteTrailer
    \/ Cleanup

\* process_file is entered with some config and some input file
FileEntry ==
    /\ target_sample_rate \in TargetRates
    /\ min_duration \in Durations
    /\ max_duration \in Durations
    /\ in_sample_rate \in InputRates
    /\ dec_channels \in DecChannels
    /\ fpc = "setup"
    /\ stage = 1
    /\ ret = 0
    /\ acquired = {}
    /\ freed = [r \in Resources |-> 0]
    /\ max_samples = 0
    /\ min_samples = 0
    /\ total_output_samples = 0
    /\ pts = 0
    /\ enc_pts = 0
    /\ nb_samples = 0
    /\ samples_to_write = 0
    /\ offset = 0
    /\ silence_remaining = 0
    /\ buf_first = 0
    /\ pkts_read = 0
    /\ frames_decoded = 0
    /\ swr_pending = 0
    /\ swr_returned = 0
    /\ out_log = <<>>
    /\ faults = {}
    /\ out_count = 0
    /\ converted = 0
    /\ enc_nb = 0
    /\ convert_calls = 0
    /\ flush_calls = 0
    /\ batch_k = 0
    /\ built = {}
    /\ batch_state = "none"

\* one call of process_file; the encoder refuses at most MaxRejects submissions
InitFile == PoolInit /\ WalkIdle /\ FileEntry /\ rejects_left = MaxRejects

SpecFile == InitFile /\ [][NextFile]_vars

\* one call of process_file with an encoder that may refuse any submission;
\* the thread running the call keeps running
InitFileFair ==
    /\ PoolInit
    /\ WalkIdle
    /\ FileEntry
    /\ rejects_left = -1
    /\ target_sample_rate = 16000
    /\ min_duration = 1
    /\ max_duration = 1
    /\ dec_channels = 1

FairSpecFile == InitFileFair /\ [][NextFile]_vars /\ WF_vars(NextFile)


\* ------------------------------------------------ collect_files_recursive
\* A string is the sequence of its characters.
Slash == <<"/">>

\* snprintf(buf, size, ...): at most size - 1 characters are stored
Snprintf(size, s) == SubSeq(s, 1, Min(Len(s), size - 1))

UpperCase == <<"A", "B", "C", "D", "E", "F", "G", "H", "I", "J", "K", "L", "M",
               "N", "O", "P", "Q", "R", "S", "T", "U", "V", "W", "X", "Y", "Z">>
LowerCase == <<"a", "b", "c", "d", "e", "f", "g", "h", "i", "j", "k", "l", "m",
               "n", "o", "p", "q", "r", "s", "t", "u", "v", "w", "x", "y", "z">>

\* tolower() on one character
ToLower(c) ==
    IF \E i \in 1..Len(UpperCase) : UpperCase[i] = c
       THEN LowerCase[CHOOSE i \in 1..Len(UpperCase) : UpperCase[i] = c]
       ELSE c

\* strcasecmp(a, b) == 0
StrCaseEq(a, b) ==
    /\ Len(a) = Len(b)
    /\ \A i \in 1..Len(a) : ToLower(a[i]) = ToLower(b[i])

\* const char *extensions[]
Extensions == << <<".", "m", "p", "3">>, <<".", "w", "a", "v">>,
                 <<".", "f", "l", "a", "c">>, <<".", "m", "4", "a">>,
                 <<".", "o", "g", "g">>, <<".", "a", "a", "c">>,
                 <<".", "w", "m", "a">>, <<".", "o", "p", "u", "s">> >>

\* mutant: the suffix is compared with strcmp
is_audio_file_CaseSensitive(filename) ==
    \E i \in 1..Len(Extensions) :
        /\ Len(filename) > Len(Extensions[i])
        /\ SubSeq(filename, Len(filename) - Len(Extensions[i]) + 1, Len(filename))
              = Extensions[i]

\* len > ext_len && strcasecmp(filename + len - ext_len, extensions[i]) == 0
is_audio_file(filename) ==
    \E i \in 1..Len(Extensions) :
        /\ Len(filename) > Len(Extensions[i])
        /\ StrCaseEq(SubSeq(filename, Len(filename) - Len(Extensions[i]) + 1,
                            Len(filename)),
                     Extensions[i])

\* strrchr(s, c): the position of the last c in s, 0 for NULL
Strrchr(s, c) ==
    IF \E i \in 1..Len(s) : s[i] = c
       THEN CHOOSE i \in 1..Len(s) : s[i] = c /\ \A j \in (i + 1)..Len(s) : s[j] # c
       ELSE 0

\* stem_len = dot ? dot - entry->d_name : strlen(entry->d_name), and the
\* characters "%.*s" prints with it
Stem(d_name) ==
    IF Strrchr(d_name, ".") # 0
       THEN SubSeq(d_name, 1, Strrchr(d_name, ".") - 1)
       ELSE d_name

\* snprintf(full_path, sizeof(full_path), "%s/%s", dir_path, entry->d_name)
FullPath(dir_path, d_name) == Snprintf(PathBufLen, dir_path \o Slash \o d_name)

\* new_rel_path: "%s/%s" of rel_path and the name, or the name alone
NewRelPath(rel_path, d_name) ==
    IF rel_path # <<>>
       THEN Snprintf(PathBufLen, rel_path \o Slash \o d_name)
       ELSE Snprintf(PathBufLen, d_name)

\* lines 397-415: output_path
OutputPath(out_dir, rel_path, d_name) ==
    LET new_rel_path == NewRelPath(rel_path, d_name)
        last_slash == Strrchr(new_rel_path, "/")
        wav == Stem(d_name) \o <<".", "w", "a", "v">>
    IN  IF rel_path # <<>> /\ last_slash # 0
           THEN Snprintf(PathBufLen, out_dir \o Slash
                                       \o SubSeq(new_rel_path, 1, last_slash - 1)
                                       \o Slash \o wav)
           ELSE Snprintf(PathBufLen, out_dir \o Slash \o wav)

\* *capacity = *capacity ? *capacity * 2 : 256, when the array is full
Grow(cap, count) == IF count >= cap THEN (IF cap = 0 THEN 256 ELSE cap * 2) ELSE cap

\* what stat(full_path) reports: a regular file, a directory, another kind
\* of file, or a failure
Kinds == {"reg", "dir", "other", "fail"}

Ent(name, kind) == [name |-> name, kind |-> kind]

\* the contents of a directory, in the order readdir returns them
Listings == {
    << Ent(<<".">>, "dir"),
       Ent(<<"a", ".", "m", "p", "3">>, "reg"),
       Ent(<<"a", ".", "F", "L", "A", "C">>, "reg") >>,
    << Ent(<<"a", ".", "b", ".", "w", "a", "v">>, "reg"),
       Ent(<<"d">>, "dir"),
       Ent(<<"a", ".", "t", "x", "t">>, "reg") >>,
    << Ent(<<".", "h", ".", "m", "p", "3">>, "reg"),
       Ent(<<".", "g">>, "dir"),
       Ent(<<"m", "p", "3">>, "reg") >>,
    << Ent(<<"a", ".", "O", "p", "u", "s">>, "reg"),
       Ent(<<"c", ".", "m", "p", "3">>, "dir"),
       Ent(<<"s", ".", "w", "a", "v">>, "other"),
       Ent(<<"a", ".", "o", "g", "g">>, "fail") >>,
    << Ent(<<"d">>, "dir"),
       Ent(<<"a", ".", "m", "p", "3">>, "reg") >>,
    << >> }

\* a directory MaxDepth levels below the input root holds no directory that
\* the walk would enter
Enterable(e) == e.kind = "dir" /\ e.name[1] # "."
ListingsAt(depth) ==
    IF depth < MaxDepth
       THEN Listings
       ELSE {l \in Listings : \A i \in 1..Len(l) : ~Enterable(l[i])}

\* argv[1] and argv[2]; the long output root is PathBufLen - 6 characters,
\* in components of 199
InputRoots == { <<"A">> }
LongRoot == [i \in 1..(PathBufLen - 6) |-> IF i % 200 = 0 THEN "/" ELSE "x"]
OutputRoots == { <<"B">>, LongRoot }

\* one activation of collect_files_recursive: its arguments, what readdir
\* will return and how far it has got, and (history) the names of the
\* directories from the input root down to this one
Frame(dir_path, rel_path, comps, listing) ==
    [dir_path |-> dir_path, rel_path |-> rel_path, comps |-> comps,
     listing |-> listing, pos |-> 1]

\* line 489: collect_files_recursive(input_dir, "", output_dir, ...); opendir
\* fails and the call returns -1, or the walk of the root begins
WalkCall ==
    /\ walk_pc = "call"
    /\ \/ /\ walk_pc' = "done"
          /\ UNCHANGED stack
       \/ /\ walk_pc' = "walk"
          /\ \E l \in ListingsAt(0) : stack' = <<Frame(input_dir, <<>>, <<>>, l)>>
    /\ UNCHANGED <<poolvars, filevars>>
    /\ UNCHANGED <<input_dir, output_dir, entry, tasks, capacity>>

\* lines 417-421: the new task (comps is history: the names from the root)
NewTask(top, d_name) ==
    [input_path |-> FullPath(top.dir_path, d_name),
     output_path |-> OutputPath(output_dir, top.rel_path, d_name),
     comps |-> Append(top.comps, d_name)]

\* lines 372-423, one pass of the while loop: readdir returns an entry; a name
\* that begins with '.' is skipped, as is one stat fails on; a directory is
\* walked (its opendir may fail); a regular file with an audio suffix is added
WalkEntry ==
    /\ walk_pc = "walk"
    /\ LET top == stack[Len(stack)]
           rest == SubSeq(stack, 1, Len(stack) - 1)
           here == Append(rest, [top EXCEPT !.pos = @ + 1])
       IN  /\ top.pos <= Len(top.listing)
           /\ LET d_name == top.listing[top.pos].name
                  kind == top.listing[top.pos].kind
              IN  /\ entry' = [comps |-> Append(top.comps, d_name), kind |-> kind]
                  /\ IF d_name[1] = "." \/ kind = "fail"
                        THEN /\ stack' = here
                             /\ UNCHANGED <<tasks, task_count, capacity>>
                        ELSE IF kind = "dir"
                        THEN /\ \/ stack' = here
                                \/ \E l \in ListingsAt(Len(stack)) :
                                      stack' = Append(here,
                                          Frame(FullPath(top.dir_path, d_name),
                                                NewRelPath(top.rel_path, d_name),
                                                Append(top.comps, d_name), l))
                             /\ UNCHANGED <<tasks, task_count, capacity>>
                        ELSE IF kind = "reg" /\ is_audio_file(d_name)
                        THEN /\ capacity' = Grow(capacity, task_count)
                             /\ tasks' = Append(tasks, NewTask(top, d_name))
                             /\ task_count' = task_count + 1
                             /\ stack' = here
                        ELSE /\ stack' = here
                             /\ UNCHANGED <<tasks, task_count, capacity>>
    /\ UNCHANGED filevars
    /\ UNCHANGED <<main_pc, num_threads, requested, ensured, created, joined, complete_msg,
                   next_task, mutex, wpc, task_idx, wret, calls, reports>>
    /\ UNCHANGED <<walk_pc, input_dir, output_dir>>

\* lines 372 and 425-426: readdir returns NULL; closedir; return 0
WalkReturn ==
    /\ walk_pc = "walk"
    /\ stack[Len(stack)].pos > Len(stack[Len(stack)].listing)
    /\ stack' = SubSeq(stack, 1, Len(stack) - 1)
    /\ walk_pc' = IF Len(stack) = 1 THEN "done" ELSE "walk"
    /\ UNCHANGED <<poolvars, filevars>>
    /\ UNCHANGED <<input_dir, output_dir, entry, tasks, capacity>>

NextWalk ==
    \/ WalkCall
    \/ WalkEntry
    \/ WalkReturn

\* main has reached line 489 with an empty task list
InitWalk ==
    /\ PoolInit
    /\ FileIdle
    /\ walk_pc = "call"
    /\ input_dir \in InputRoots
    /\ output_dir \in OutputRoots
    /\ stack = <<>>
    /\ entry = [comps |-> <<>>, kind |-> "none"]
    /\ tasks = <<>>
    /\ capacity = 0

SpecWalk == InitWalk /\ [][NextWalk]_vars

\* ======================================================================
\* Properties of main and the worker pool (specification Spec)
\* ======================================================================
PastCreate == main_pc \in {"join", "complete", "exit"}

\* every thread main has spawned has returned from worker_thread
AllWorkersDone ==
    /\ PastCreate
    /\ \A t \in ThreadIds : t < num_threads => wpc[t] = "done"

\* C1: with W >= 1 workers over N >= 1 tasks, under every interleaving, each
\* index in 0..N-1 is passed to process_file exactly once: never twice, never
\* an index outside 0..N-1, and once all workers have terminated none is left.
C1_EachTaskExactlyOnce ==
    /\ \A i \in TaskIds : calls[i] <= 1
    /\ \A i \in TaskIds : i >= task_count => calls[i] = 0
    /\ (num_threads >= 1 /\ AllWorkersDone)
          => \A i \in TaskIds : i < task_count => calls[i] = 1

C1_Witness ==
    /\ AllWorkersDone
    /\ num_threads >= 2
    /\ task_count = MaxTasks
    /\ \A i \in TaskIds : calls[i] = 1
    /\ \E t \in ThreadIds : t < num_threads /\ task_idx[t] > task_count

\* no task is reported more often than it was processed, nor processed twice;
\* with at least one worker, once they have all terminated every task has been
\* processed once and reported once
C5_Inv ==
    /\ \A i \in TaskIds : Len(reports[i]) <= calls[i] /\ calls[i] <= 1
    /\ (num_threads >= 1 /\ AllWorkersDone)
          => \A i \in TaskIds : i < task_count =>
                 /\ calls[i] = 1
                 /\ Len(reports[i]) = 1

\* the step of a worker that leaves the report: one line is printed for its
\* task, "Failed" exactly when ret # 0; the worker goes back to the lock
\* whatever ret was; no other worker moves
C5_Step ==
    \A t \in ThreadIds :
        (wpc[t] = "report" /\ wpc'[t] # "report") =>
            /\ wpc'[t] = "lock"
            /\ Len(reports'[task_idx[t]]) = Len(reports[task_idx[t]]) + 1
            /\ reports'[task_idx[t]][Len(reports'[task_idx[t]])]
                   = (IF wret[t] = 0 THEN "Processed" ELSE "Failed")
            /\ \A u \in ThreadIds \ {t} : wpc'[u] = wpc[u]

\* C5: a failed process_file call stops nothing: the worker that saw the
\* failure prints its report and goes back to claim the next index, no other
\* worker's position changes with it, and (with at least one worker, as in C1)
\* once the workers have terminated every index in 0..N-1 has been processed
\* exactly once and has exactly one report, whatever subset of the calls failed.
C5_FailureIsolated == [](C5_Inv) /\ [][C5_Step]_vars

C5_Witness ==
    /\ AllWorkersDone
    /\ num_threads = 1
    /\ task_count = MaxTasks
    /\ reports[0] = <<"Failed">>
    /\ \A i \in TaskIds : i > 0 => reports[i] = <<"Processed">>

\* C7: "Processing complete!" is printed only when every spawned worker has
\* terminated and every task's success/failure report has been printed.
C7_CompleteAfterAllReports ==
    complete_msg =>
        /\ \A t \in ThreadIds : t < num_threads => wpc[t] = "done"
        /\ \A i \in TaskIds : i < task_count => Len(reports[i]) = 1

\* C8: for every requested worker count W (0 and negative values included) and
\* every N >= 1, main spawns min(W, N) workers and never fewer than one, so
\* that every task has been processed when main returns.
C8_SpawnCount ==
    /\ PastCreate => created = Max(1, Min(requested, task_count))
    /\ main_pc = "exit" => \A i \in TaskIds : i < task_count => calls[i] = 1

\* once a thread exists, ensure_dir has been called, and has returned, for the
\* parent directory of every task's output path
C13_Inv ==
    (created > 0 \/ \E t \in ThreadIds : wpc[t] # "unborn")
        => (ensured = task_count /\ main_pc # "mkdirs")

\* a step that calls ensure_dir is a step of main in its directory loop, taken
\* while no thread exists; it is not a step of a worker
C13_Step ==
    (ensured' # ensured) =>
        /\ main_pc = "mkdirs"
        /\ ensured' = ensured + 1
        /\ created = 0
        /\ \A t \in ThreadIds : wpc[t] = "unborn" /\ wpc'[t] = "unborn"

\* C13: ensure_dir has been invoked for the parent directory of every task's
\* output path, and every such call has returned, before the first worker
\* thread is created; no worker ever creates a directory.
C13_DirsBeforeWorkers == [](C13_Inv) /\ [][C13_Step]_vars

C13_Witness ==
    /\ task_count = MaxTasks
    /\ ensured = MaxTasks
    /\ created >= 2
    /\ \E t \in ThreadIds : wpc[t] = "process"

\* C19: the mutex is held only around the read-and-increment of the claim
\* cursor: a worker inside process_file (or anywhere outside lines 347-348)
\* does not hold it, so a worker processing a file never blocks another
\* worker's claim.
C19_MutexOnlyAroundClaim ==
    \A t \in ThreadIds :
        /\ mutex = t => wpc[t] \in {"read", "incr", "unlock"}
        /\ wpc[t] = "process" => mutex # t

\* two workers are inside process_file at once, on different tasks, and a
\* third claims a task meanwhile
C19_Witness ==
    \E t, u \in ThreadIds :
        /\ t # u
        /\ wpc[t] = "process"
        /\ wpc[u] = "process"
        /\ task_idx[t] # task_idx[u]
        /\ \E v \in ThreadIds \ {t, u} : mutex = v

\* ======================================================================
\* Properties of process_file (specification SpecFile)
\* ======================================================================
\* the frames the encoder accepted, in order
Frames == SelectSeq(out_log, LAMBDA e : e.ev = "frame")

RECURSIVE SumN(_)
SumN(fs) == IF fs = <<>> THEN 0 ELSE fs[1].n + SumN(Tail(fs))

\* the number of samples in the output
Emitted == SumN(Frames)

\* frames 1..k of fs are resampled samples 1, 2, 3, ... without gap or repeat
Contiguous(fs, k) ==
    \A i \in 1..k : fs[i].first = 1 + SumN(SubSeq(fs, 1, i - 1))

Silent(fs, from) == \A i \in from..Len(fs) : fs[i].first = 0

ReturnedOk == fpc = "returned" /\ ret = 0

\* C2: with min_samples <= max_samples, for every input and every behaviour
\* of the codec, when process_file returns 0 the number S of samples in the
\* frames it gave the encoder satisfies min_samples <= S <= max_samples.
C2_DurationBound ==
    (ReturnedOk /\ min_samples <= max_samples)
        => (min_samples <= Emitted /\ Emitted <= max_samples)

\* C3: when the resampler returned more than max_samples samples, the output
\* is exactly max_samples samples long and is the first max_samples samples
\* the resampler returned, in order.
C3_TruncationExact ==
    (ReturnedOk /\ min_samples <= max_samples /\ swr_returned > max_samples)
        => /\ Emitted = max_samples
           /\ Contiguous(Frames, Len(Frames))

\* C4: when the resampler returned L < min_samples samples in all, the output
\* is exactly min_samples samples long: the L resampled samples, then
\* min_samples - L zeros.
C4_PaddingExact ==
    (ReturnedOk /\ min_samples <= max_samples /\ swr_returned < min_samples)
        => /\ Emitted = min_samples
           /\ \E k \in 0..Len(Frames) :
                 /\ Contiguous(Frames, k)
                 /\ SumN(SubSeq(Frames, 1, k)) = swr_returned
                 /\ Silent(Frames, k + 1)

\* C6: every call of process_file eventually returns, given that the thread
\* keeps running and every codec call returns (specification FairSpecFile).
C6_ProcessFileReturns == <>(fpc = "returned")

\* C9: an allocation failure anywhere in process_file makes it return non-zero.
C9_AllocFailureIsError ==
    (fpc = "returned" /\ "alloc" \in faults) => ret # 0

\* C10: on every exit path each resource acquired so far has been released
\* exactly once when process_file returns, nothing is released twice, and
\* nothing is released that was never acquired.
C10_ReleasedExactlyOnce ==
    /\ \A r \in Resources : freed[r] <= 1 /\ (freed[r] = 1 => r \in acquired)
    /\ fpc = "returned" => \A r \in acquired : freed[r] = 1

C10_Witness ==
    /\ fpc = "returned"
    /\ ret # 0
    /\ acquired = {"in_fmt_ctx", "dec_ctx", "out_fmt_ctx", "enc_ctx", "out_file"}
    /\ \A r \in acquired : freed[r] = 1

\* max_samples and min_samples have been computed (line 149 is passed)
LimitsSet == fpc \notin {"idle", "setup", "alloc"}

\* in a state where the running count has reached max_samples, the next step
\* reads no packet, decodes no frame and calls swr_convert neither on a frame
\* nor to flush
C14_Step ==
    (LimitsSet /\ total_output_samples >= max_samples) =>
        /\ pkts_read' = pkts_read
        /\ frames_decoded' = frames_decoded
        /\ convert_calls' = convert_calls
        /\ flush_calls' = flush_calls

\* C14: for every max_samples >= 0 (0 included), from the first state in
\* which the running output sample count is >= max_samples onward, no further
\* input packet is read, no further frame is decoded and no further resample or
\* resampler-flush call is made.
C14_TruncationStopsInput == [][C14_Step]_vars

\* C15: the pts of the frames the encoder accepted are strictly increasing and
\* each equals the sum of the sample counts of the frames accepted before it
\* (0 for the first), whatever submissions the encoder refuses.
C15_PtsRunningSum ==
    \A i \in 1..Len(Frames) :
        /\ Frames[i].pts = SumN(SubSeq(Frames, 1, i - 1))
        /\ i > 1 => Frames[i].pts > Frames[i - 1].pts

\* a frame has been built and not yet been dealt with
FrameBuilt == fpc \in {"send_d", "send_f", "send_s"}

C17_BufferBounds ==
    /\ (convert_calls + flush_calls > 0) => out_count <= 8192 \div Channels
    /\ fpc \in {"send_d", "send_f"} =>
          /\ 0 <= offset * Channels
          /\ (offset + enc_nb) * Channels - 1 < 8192
          /\ offset + enc_nb <= converted

\* a frame larger than the buffer has been converted for three channels, and
\* the last chunk copied ends two floats before the end of the buffer
C17_Witness ==
    /\ fpc = "send_d"
    /\ Channels = 3
    /\ nb_samples > 8192
    /\ out_count = 2730
    /\ (offset + enc_nb) * Channels = 8190

DataFrameAt(i) == out_log[i].ev = "frame" /\ out_log[i].first > 0
SilenceFrameAt(i) == out_log[i].ev = "frame" /\ out_log[i].first = 0

\* the order of the output events (a packet is written for a frame when the
\* encoder has accepted it): the header is first and written once; no data
\* frame follows a silence frame; no frame follows the end-of-stream signal;
\* the trailer is written once, directly after end-of-stream, and is last;
\* a successful run has header, end-of-stream and trailer
C18_Inv ==
    /\ \A i \in 1..Len(out_log) :
          /\ out_log[i].ev = "header" <=> i = 1
          /\ out_log[i].ev = "trailer" =>
                (i = Len(out_log) /\ i > 1 /\ out_log[i - 1].ev = "eos")
          /\ out_log[i].ev = "eos" =>
                \A j \in (i + 1)..Len(out_log) : out_log[j].ev = "trailer"
          /\ SilenceFrameAt(i) =>
                \A j \in (i + 1)..Len(out_log) : ~DataFrameAt(j)
    /\ ReturnedOk =>
          /\ Len(out_log) >= 3
          /\ out_log[Len(out_log)].ev = "trailer"

\* once the resampler has been flushed, or the code is at the flush loop or
\* beyond, the input loop does nothing more; once silence is being written the
\* resampler is not called again; after the trailer nothing is written
C18_Step ==
    /\ (flush_calls > 0 \/ fpc \in {"flush", "chunk_f", "send_f"})
          => /\ pkts_read' = pkts_read
             /\ frames_decoded' = frames_decoded
             /\ convert_calls' = convert_calls
    /\ (fpc \in {"chunk_s", "send_s"} \/ \E i \in 1..Len(out_log) : SilenceFrameAt(i))
          => /\ flush_calls' = flush_calls
             /\ convert_calls' = convert_calls
             /\ pkts_read' = pkts_read
    /\ (\E i \in 1..Len(out_log) : out_log[i].ev = "trailer") => out_log' = out_log

\* C18: in every successful run the container header is written exactly once,
\* before any packet; the resampler is flushed only after the input loop has
\* ended; silence is written only after the resampler flush; end-of-stream is
\* signalled only after the last data or silence frame; the trailer is written
\* exactly once, after the encoder flush, and no packet is written after it.
C18_OutputOrder == [](C18_Inv) /\ [][C18_Step]_vars

C18_Witness ==
    /\ ReturnedOk
    /\ faults = {}
    /\ pkts_read = MaxPackets
    /\ flush_calls > 0
    /\ \E i \in 1..Len(out_log) : DataFrameAt(i)
    /\ \E i \in 1..Len(out_log) : SilenceFrameAt(i)

\* the resampled samples in the output, and the zeros
DataFrames == SelectSeq(out_log, LAMBDA e : e.ev = "frame" /\ e.first > 0)
SilenceFrames == SelectSeq(out_log, LAMBDA e : e.ev = "frame" /\ e.first = 0)

\* C21: with min_samples > max_samples and no codec call failing, the output
\* never holds more than max_samples resampled samples, and when process_file
\* returns 0 the output is exactly min_samples samples long: the resampled
\* samples, at most max_samples of them and in order, then zeros up to
\* min_samples.
C21_PaddingOverridesCap ==
    (min_samples > max_samples /\ faults = {})
        => /\ SumN(DataFrames) <= max_samples
           /\ ReturnedOk =>
                 /\ Emitted = min_samples
                 /\ Contiguous(Frames, Len(DataFrames))
                 /\ Silent(Frames, Len(DataFrames) + 1)
                 /\ SumN(SilenceFrames) = min_samples - SumN(DataFrames)
                 /\ SumN(SilenceFrames) > 0

\* a call returned 0 without a codec failure, under a config with
\* min_samples > max_samples > 0, for an input longer than max_samples: the
\* output is max_samples resampled samples and then zeros
C21_Witness ==
    /\ ReturnedOk
    /\ faults = {}
    /\ 0 < max_samples
    /\ max_samples < min_samples
    /\ swr_returned > max_samples
    /\ SumN(DataFrames) = max_samples
    /\ SumN(SilenceFrames) = min_samples - max_samples

\* ======================================================================
\* Properties of the directory walk (specification SpecWalk)
\* ======================================================================
RECURSIVE JoinPath(_)
\* the components joined with '/'
JoinPath(comps) ==
    IF Len(comps) = 1 THEN comps[1]
                      ELSE comps[1] \o Slash \o JoinPath(Tail(comps))

\* the name with what follows its last '.' replaced by "wav"
ReplaceExt(name) ==
    LET last == CHOOSE i \in 1..Len(name) :
                    name[i] = "." /\ \A j \in 1..Len(name) : name[j] = "." => j <= i
    IN  SubSeq(name, 1, last) \o <<"w", "a", "v">>

\* <output_root>/d1/.../dk/name.wav for the file at d1/.../dk/name.ext
MirroredPath(comps) ==
    output_dir \o Slash
        \o JoinPath(Append(SubSeq(comps, 1, Len(comps) - 1),
                           ReplaceExt(comps[Len(comps)])))

\* C11: every task built for the file at d1/.../dk/name.ext under the input
\* root has the output path <output_root>/d1/.../dk/name.wav: the directory
\* components unchanged, what follows the last '.' of the name replaced by
\* lowercase "wav".
C11_OutputPathMirrors ==
    \A k \in 1..Len(tasks) : tasks[k].output_path = MirroredPath(tasks[k].comps)

\* .mp3 .wav .flac .m4a .ogg .aac .wma .opus
SuffixChars ==
    { <<".", "m", "p", "3">>, <<".", "w", "a", "v">>, <<".", "f", "l", "a", "c">>,
      <<".", "m", "4", "a">>, <<".", "o", "g", "g">>, <<".", "a", "a", "c">>,
      <<".", "w", "m", "a">>, <<".", "o", "p", "u", "s">> }

Lowered(name) == [i \in 1..Len(name) |-> ToLower(name[i])]

\* the name ends, case-insensitively, with one of the audio suffixes
EndsWithAudioSuffix(name) ==
    \E x \in SuffixChars :
        /\ Len(name) >= Len(x)
        /\ SubSeq(Lowered(name), Len(name) - Len(x) + 1, Len(name)) = x

Hidden(name) == name[1] = "."

\* no task lies at or below a name that begins with '.', and every task is a
\* file with an audio suffix
C12_Inv ==
    \A k \in 1..Len(tasks) :
        /\ \A i \in 1..Len(tasks[k].comps) : ~Hidden(tasks[k].comps[i])
        /\ EndsWithAudioSuffix(tasks[k].comps[Len(tasks[k].comps)])

\* the step in which readdir returns an entry: one task is added for it
\* exactly when it is a regular file whose name does not begin with '.' and
\* ends with an audio suffix; no task is added otherwise, and a directory whose
\* name begins with '.' is not entered
C12_Step ==
    (entry' # entry) =>
        LET name == entry'.comps[Len(entry'.comps)]
            wanted == entry'.kind = "reg" /\ ~Hidden(name) /\ EndsWithAudioSuffix(name)
        IN  /\ wanted => /\ Len(tasks') = Len(tasks) + 1
                         /\ tasks'[Len(tasks')].comps = entry'.comps
            /\ ~wanted => tasks' = tasks
            /\ Hidden(name) => Len(stack') = Len(stack)

\* C12: the walk emits a task for a regular file exactly when its name does
\* not begin with '.' and ends, case-insensitively, with one of the eight audio
\* suffixes; other files, and every entry whose name begins with '.' together
\* with everything below it, produce no task.
C12_TaskIffAudioFile == [](C12_Inv) /\ [][C12_Step]_vars

\* a task exists for a file with a mixed-case suffix, and a regular file with
\* an audio suffix whose name begins with '.' has just been passed over, one
\* directory down
C12_Witness ==
    /\ Len(tasks) = 1
    /\ tasks[1].comps = << <<"a", ".", "O", "p", "u", "s">> >>
    /\ entry.kind = "reg"
    /\ Len(entry.comps) = 2
    /\ Hidden(entry.comps[2])
    /\ EndsWithAudioSuffix(entry.comps[2])

\* C20: two distinct tasks built by the walk never have the same output path.
C20_DistinctOutputs ==
    \A i, j \in 1..Len(tasks) : i # j => tasks[i].output_path # tasks[j].output_path

====
